---------------------------- MODULE Spec2Model ----------------------------
(***************************************************************************)
(* A model of skidl/tools/kicad6/gen_svg.py: the normaliser of KiCad       *)
(* drawing commands (draw_cmd_to_dict), the pin geometry resolver          *)
(* (get_pin_info), the shape renderer (draw_cmd_to_svg) and the unit       *)
(* composer (gen_svg_comp).                                                *)
(*                                                                         *)
(* The functions are pure.  The state machine is a caller that picks one   *)
(* function and an input, records the input and what the call produced     *)
(* (a value or the exception it raised), and returns to pick again.        *)
(*                                                                         *)
(* Python values are tagged records:                                       *)
(*   [t |-> "num",  v |-> Int]            a number                         *)
(*   [t |-> "frac", n |-> Int, d |-> Int] the float n/d (0.1 is 1/10)      *)
(*   [t |-> "str",  v |-> STRING]         a string or a symbol's value     *)
(*   [t |-> "list", items |-> Seq]        a list                           *)
(*   [t |-> "dict", kv |-> Seq of [k, v]] a dict, in insertion order       *)
(*   [t |-> "cmd",  name, items]          a drawing command: the list      *)
(*                                        [Symbol(name), item, ...]        *)
(*   [t |-> "exc",  kind, what]           a raised exception               *)
(*   [t |-> "none"]                       None                             *)
(***************************************************************************)
EXTENDS Integers, Sequences, FiniteSets, TLC

VARIABLES pc, fn, arg, ret

vars == <<pc, fn, arg, ret>>

(***************************************************************************)
(* Bounds of the inputs.                                                   *)
(***************************************************************************)
\* Most children a generic drawing command has, at either nesting level.
MaxItems == 2

\* Most coordinate pairs under the points list of a polyline.
MaxPoints == 3

\* Most scalar flags in the text-effects sub-record of a property.
MaxFlags == 2

\* Most operators in a symmetry-operator string.
MaxSymtx == 2

\* Most pins of a unit.
MaxPins == 2

\* Most units of a part.
MaxUnits == 2

\* Most nets on a pin.
MaxNets == 2

\* Most drawing commands of a unit.
MaxCmds == 2

(***************************************************************************)
(* Python values.                                                          *)
(***************************************************************************)
None == [t |-> "none"]

Num(n) == [t |-> "num", v |-> n]

Frac(n, d) == [t |-> "frac", n |-> n, d |-> d]

Str(s) == [t |-> "str", v |-> s]

List(s) == [t |-> "list", items |-> s]

Dict(kv) == [t |-> "dict", kv |-> kv]

Cmd(name, items) == [t |-> "cmd", name |-> name, items |-> items]

Exc(kind, what) == [t |-> "exc", kind |-> kind, what |-> what]

Raised(v) == v.t = "exc"

\* The sequences over S of length 0..n.
SeqsUpTo(S, n) == UNION {[1..k -> S] : k \in 0..n}

(***************************************************************************)
(* dict operations, on the insertion-ordered sequence of key/value pairs.  *)
(***************************************************************************)
\* key in d
DictHas(kv, k) == \E i \in 1..Len(kv) : kv[i].k = k

\* d[key], for a key the dict has
DictGet(kv, k) == kv[CHOOSE i \in 1..Len(kv) : kv[i].k = k].v

\* d[key] = v: a present key keeps its place, a new one is appended
DictSet(kv, k, v) ==
    IF DictHas(kv, k)
    THEN [i \in 1..Len(kv) |-> IF kv[i].k = k THEN [k |-> k, v |-> v] ELSE kv[i]]
    ELSE Append(kv, [k |-> k, v |-> v])

(***************************************************************************)
(* draw_cmd_to_dict                                                        *)
(***************************************************************************)
\* The loop "for item in items" (lines 38-56) from item i on.  st holds the
\* locals d (lists under their keys), is_named_present and item_names, and
\* exc, the exception a recursive call raised (None while none has).
RECURSIVE draw_cmd_to_dict(_)
RECURSIVE ItemLoop(_, _, _)
ItemLoop(items, i, st) ==
    IF i > Len(items) \/ st.exc # None THEN st
    ELSE LET item == items[i]
             named == item.t = "cmd"
             sub == IF named THEN draw_cmd_to_dict(item) ELSE None
             item_name == IF named THEN sub.name ELSE "misc"
             item_dict == IF named THEN sub.d ELSE item
         IN  IF named /\ Raised(sub.d)
             THEN [st EXCEPT !.exc = sub.d]
             ELSE ItemLoop(items, i + 1,
                    [d |-> IF DictHas(st.d, item_name)
                           THEN DictSet(st.d, item_name,
                                    Append(DictGet(st.d, item_name), item_dict))
                           ELSE DictSet(st.d, item_name, <<item_dict>>),
                     is_named_present |-> st.is_named_present \/ named,
                     item_names |-> IF \E j \in 1..Len(st.item_names) :
                                            st.item_names[j] = item_name
                                    THEN st.item_names
                                    ELSE Append(st.item_names, item_name),
                     exc |-> None])

\* Delist with the de-listing of lines 60-61 left out.
DelistKeepsLists(kv) ==
    [i \in 1..Len(kv) |-> [k |-> kv[i].k, v |-> List(kv[i].v)]]

\* The loop of lines 59-61: a list of one item is replaced by the item, any
\* other list becomes the Python list of its items.
Delist(kv) ==
    [i \in 1..Len(kv) |->
        [k |-> kv[i].k,
         v |-> IF Len(kv[i].v) = 1 THEN kv[i].v[1] ELSE List(kv[i].v)]]

\* Returns [name, d]; d is the exception when the call raises.
draw_cmd_to_dict(symbol) ==
    LET name == symbol.name
        st == ItemLoop(symbol.items, 1,
                [d |-> <<>>, is_named_present |-> FALSE,
                 item_names |-> <<>>, exc |-> None])
        d == Delist(st.d)
    IN  IF st.exc # None THEN [name |-> name, d |-> st.exc]
        ELSE IF ~st.is_named_present
        THEN IF DictHas(d, "misc")
             THEN [name |-> name, d |-> DictGet(d, "misc")]
             ELSE [name |-> name, d |-> Exc("KeyError", "misc")]
        ELSE [name |-> name, d |-> Dict(d)]

(***************************************************************************)
(* Numbers of the geometry.  The floats the code computes (coordinates of  *)
(* points, bounding boxes, text extents) are fixed-point integers, in      *)
(* thousandths: Unit stands for 1.0.  The numbers the code reads from a    *)
(* command or a pin (coordinates, lengths, degrees) are whole numbers.     *)
(***************************************************************************)
Unit == 10 * 10 * 10

\* 1000 * math.cos(math.radians(deg)), rounded, for deg = 0..359.
CosTable ==
    <<1000, 1000, 999, 999, 998, 996, 995, 993, 990, 988, 985, 982, 978,
      974, 970, 966, 961, 956, 951, 946, 940, 934, 927, 921, 914, 906, 899,
      891, 883, 875, 866, 857, 848, 839, 829, 819, 809, 799, 788, 777, 766,
      755, 743, 731, 719, 707, 695, 682, 669, 656, 643, 629, 616, 602, 588,
      574, 559, 545, 530, 515, 500, 485, 469, 454, 438, 423, 407, 391, 375,
      358, 342, 326, 309, 292, 276, 259, 242, 225, 208, 191, 174, 156, 139,
      122, 105, 87, 70, 52, 35, 17, 0, -17, -35, -52, -70, -87, -105, -122,
      -139, -156, -174, -191, -208, -225, -242, -259, -276, -292, -309,
      -326, -342, -358, -375, -391, -407, -423, -438, -454, -469, -485,
      -500, -515, -530, -545, -559, -574, -588, -602, -616, -629, -643,
      -656, -669, -682, -695, -707, -719, -731, -743, -755, -766, -777,
      -788, -799, -809, -819, -829, -839, -848, -857, -866, -875, -883,
      -891, -899, -906, -914, -921, -927, -934, -940, -946, -951, -956,
      -961, -966, -970, -974, -978, -982, -985, -988, -990, -993, -995,
      -996, -998, -999, -999, -1000, -1000, -1000, -999, -999, -998, -996,
      -995, -993, -990, -988, -985, -982, -978, -974, -970, -966, -961,
      -956, -951, -946, -940, -934, -927, -921, -914, -906, -899, -891,
      -883, -875, -866, -857, -848, -839, -829, -819, -809, -799, -788,
      -777, -766, -755, -743, -731, -719, -707, -695, -682, -669, -656,
      -643, -629, -616, -602, -588, -574, -559, -545, -530, -515, -500,
      -485, -469, -454, -438, -423, -407, -391, -375, -358, -342, -326,
      -309, -292, -276, -259, -242, -225, -208, -191, -174, -156, -139,
      -122, -105, -87, -70, -52, -35, -17, 0, 17, 35, 52, 70, 87, 105, 122,
      139, 156, 174, 191, 208, 225, 242, 259, 276, 292, 309, 326, 342, 358,
      375, 391, 407, 423, 438, 454, 469, 485, 500, 515, 530, 545, 559, 574,
      588, 602, 616, 629, 643, 656, 669, 682, 695, 707, 719, 731, 743, 755,
      766, 777, 788, 799, 809, 819, 829, 839, 848, 857, 866, 875, 883, 891,
      899, 906, 914, 921, 927, 934, 940, 946, 951, 956, 961, 966, 970, 974,
      978, 982, 985, 988, 990, 993, 995, 996, 998, 999, 999, 1000>>

\* math.cos and math.sin of an angle in whole degrees, in thousandths.
Cos(deg) == CosTable[(deg % 360) + 1]

Sin(deg) == Cos(deg - 90)

(***************************************************************************)
(* Python's operators on the tagged values.  An operand that is a raised   *)
(* exception is passed on, so a chain of reads yields the first exception  *)
(* raised in it.                                                           *)
(***************************************************************************)
\* sub in s, for two strings
IsSubstr(sub, s) ==
    \E i \in 1..(Len(s) - Len(sub) + 1) : SubSeq(s, i, i + Len(sub) - 1) = sub

UpperCase == "ABCDEFGHIJKLMNOPQRSTUVWXYZ"

LowerCase == "abcdefghijklmnopqrstuvwxyz"

\* s.lower()
RECURSIVE Lower(_)
Lower(s) ==
    IF Len(s) = 0 THEN s
    ELSE LET ch == SubSeq(s, 1, 1)
             low == IF \E i \in 1..Len(UpperCase) : SubSeq(UpperCase, i, i) = ch
                    THEN LET i == CHOOSE i \in 1..Len(UpperCase) :
                                        SubSeq(UpperCase, i, i) = ch
                         IN  SubSeq(LowerCase, i, i)
                    ELSE ch
         IN  low \o Lower(SubSeq(s, 2, Len(s)))

\* "key in c" raises TypeError for a c that is no container.
InRaises(c) == c.t \notin {"dict", "list", "str"}

\* key in c, for a string key: a key of a dict, an element of a list, a
\* substring of a string.
In(key, c) ==
    CASE c.t = "dict" -> DictHas(c.kv, key)
      [] c.t = "list" -> \E i \in 1..Len(c.items) : c.items[i] = Str(key)
      [] c.t = "str" -> IsSubstr(key, c.v)
      [] OTHER -> FALSE

\* c[key], for a string key
GetKey(c, key) ==
    IF Raised(c) THEN c
    ELSE IF c.t = "dict"
    THEN IF DictHas(c.kv, key) THEN DictGet(c.kv, key) ELSE Exc("KeyError", key)
    ELSE Exc("TypeError", "subscript")

\* c[i], for an index i >= 0
GetIdx(c, i) ==
    IF Raised(c) THEN c
    ELSE CASE c.t = "list" ->
                IF i < Len(c.items) THEN c.items[i + 1] ELSE Exc("IndexError", "list")
           [] c.t = "str" ->
                IF i < Len(c.v) THEN Str(SubSeq(c.v, i + 1, i + 1))
                ELSE Exc("IndexError", "string")
           [] c.t = "dict" -> Exc("KeyError", "index")
           [] OTHER -> Exc("TypeError", "subscript")

\* c[key] = v, giving the changed c
SetKey(c, key, v) ==
    IF Raised(c) THEN c
    ELSE IF Raised(v) THEN v
    ELSE IF c.t = "dict" THEN Dict(DictSet(c.kv, key, v))
    ELSE Exc("TypeError", "item assignment")

\* The elements "for e in c" and "*c" go through, as a list.
Iter(c) ==
    IF Raised(c) THEN c
    ELSE CASE c.t = "list" -> c
           [] c.t = "str" -> List([i \in 1..Len(c.v) |-> Str(SubSeq(c.v, i, i))])
           [] c.t = "dict" -> List([i \in 1..Len(c.kv) |-> Str(c.kv[i].k)])
           [] OTHER -> Exc("TypeError", "not iterable")

\* len(c)
PyLen(c) ==
    IF Raised(c) THEN c
    ELSE CASE c.t = "list" -> Num(Len(c.items))
           [] c.t = "str" -> Num(Len(c.v))
           [] c.t = "dict" -> Num(Len(c.kv))
           [] OTHER -> Exc("TypeError", "len")

\* -v
Neg(v) ==
    IF Raised(v) THEN v
    ELSE IF v.t = "num" THEN Num(-v.v)
    ELSE IF v.t = "frac" THEN Frac(-v.n, v.d)
    ELSE Exc("TypeError", "unary -")

\* 2*v: twice a number, a string or a list repeated
Twice(v) ==
    IF Raised(v) THEN v
    ELSE CASE v.t = "num" -> Num(2 * v.v)
           [] v.t = "frac" -> Frac(2 * v.n, v.d)
           [] v.t = "str" -> Str(v.v \o v.v)
           [] v.t = "list" -> List(v.items \o v.items)
           [] OTHER -> Exc("TypeError", "operand")

\* v used in arithmetic with a float: a number, or TypeError
AsNumber(v) ==
    IF Raised(v) THEN v
    ELSE IF v.t \in {"num", "frac"} THEN v
    ELSE Exc("TypeError", "operand")

\* A number in thousandths.
Milli(v) == IF v.t = "num" THEN v.v * Unit ELSE (v.n * Unit) \div v.d

\* The first exception of a sequence of values, None when none is one.
FirstRaised(vs) ==
    IF \E i \in 1..Len(vs) : Raised(vs[i])
    THEN vs[CHOOSE i \in 1..Len(vs) :
                /\ Raised(vs[i])
                /\ \A j \in 1..(i - 1) : ~Raised(vs[j])]
    ELSE None

(***************************************************************************)
(* Point, Tx and BBox of skidl.schematics.geometry, which gen_svg.py       *)
(* imports.  Coordinates are in thousandths.                               *)
(***************************************************************************)
Point(x, y) == [t |-> "point", x |-> x, y |-> y]

\* Point(*args) of Python values: two arguments, each a number.
PointOfArgs(args) ==
    IF Raised(args) THEN args
    ELSE IF Len(args.items) # 2 THEN Exc("TypeError", "Point()")
    ELSE IF \E i \in 1..2 : args.items[i].t \notin {"num", "frac"}
    THEN Exc("TypeError", "operand")
    ELSE Point(Milli(args.items[1]), Milli(args.items[2]))

\* Tx(a, b, c, d, dx, dy): the rows (a b), (c d) and the translation (dx dy),
\* the translation in whole units.
Tx(a, b, c, d, dx, dy) == [a |-> a, b |-> b, c |-> c, d |-> d, dx |-> dx, dy |-> dy]

TxIdentity == Tx(1, 0, 0, 1, 0, 0)

\* point * tx
PointTx(p, tx) ==
    IF Raised(p) THEN p
    ELSE Point(tx.a * p.x + tx.c * p.y + tx.dx * Unit,
               tx.b * p.x + tx.d * p.y + tx.dy * Unit)

\* point * number
PointScale(p, k) == Point(p.x * k, p.y * k)

\* m * n: m applied first, then n
TxMul(m, n) ==
    Tx(m.a * n.a + m.b * n.c, m.a * n.b + m.b * n.d,
       m.c * n.a + m.d * n.c, m.c * n.b + m.d * n.d,
       m.dx * n.a + m.dy * n.c + n.dx, m.dx * n.b + m.dy * n.d + n.dy)

\* tx * number
TxTimes(tx, k) == TxMul(tx, Tx(k, 0, 0, k, 0, 0))

\* tx.scale, the length of the row (a b), for the transforms whose row has a
\* whole length.
TxScale(tx) ==
    LET n == tx.a * tx.a + tx.b * tx.b
    IN  CHOOSE k \in 0..n : k * k = n

Min(a, b) == IF a <= b THEN a ELSE b

Max(a, b) == IF a >= b THEN a ELSE b

Abs(a) == IF a >= 0 THEN a ELSE -a

\* BBox(): no point added yet, no min and no max.
EmptyBBox == [t |-> "bbox", empty |-> TRUE]

\* bbox.add(point)
BBoxAdd(bb, p) ==
    IF bb.empty
    THEN [t |-> "bbox", empty |-> FALSE, min |-> Point(p.x, p.y), max |-> Point(p.x, p.y)]
    ELSE [t |-> "bbox", empty |-> FALSE,
          min |-> Point(Min(bb.min.x, p.x), Min(bb.min.y, p.y)),
          max |-> Point(Max(bb.max.x, p.x), Max(bb.max.y, p.y))]

\* bbox.add(*points)
RECURSIVE BBoxAddAll(_, _)
BBoxAddAll(bb, ps) ==
    IF Len(ps) = 0 THEN bb ELSE BBoxAddAll(BBoxAdd(bb, Head(ps)), Tail(ps))

\* bbox.add(other bbox)
BBoxUnion(bb, other) ==
    IF other.empty THEN bb ELSE BBoxAdd(BBoxAdd(bb, other.min), other.max)

\* bbox * tx
BBoxTx(bb, tx) ==
    IF bb.empty THEN bb
    ELSE BBoxAdd(BBoxAdd(EmptyBBox, PointTx(bb.min, tx)), PointTx(bb.max, tx))

BBoxW(bb) == bb.max.x - bb.min.x

BBoxH(bb) == bb.max.y - bb.min.y

(***************************************************************************)
(* get_pin_info                                                            *)
(***************************************************************************)
\* The dict literal of lines 71-76.
SideOfQuadrant == [q \in 0..3 |->
    CASE q = 0 -> "right" [] q = 1 -> "top" [] q = 2 -> "left" [] q = 3 -> "bottom"]

\* Returns the tuple of line 82, ([endx, endy], [x, y], side) as (tip, anchor,
\* side), or the KeyError of the lookup of lines 71-76.  x, y, rotation and
\* length are whole numbers; the points returned are in thousandths.  (The
\* cosine of 90 and of 270 degrees is 0 here, and some 1e-16 in the code.)
get_pin_info(x, y, rotation, length) ==
    LET quadrant == (rotation + 45) \div 90
    IN  IF quadrant \notin DOMAIN SideOfQuadrant
        THEN Exc("KeyError", "quadrant")
        ELSE LET side == SideOfQuadrant[quadrant]
                 dx == Cos(rotation)
                 dy == -Sin(rotation)
                 endx == x * Unit + dx * length
                 endy == y * Unit + dy * length
             IN  [t |-> "pininfo",
                  tip |-> Point(endx, endy),
                  anchor |-> Point(x * Unit, y * Unit),
                  side |-> side]

(***************************************************************************)
(* draw_cmd_to_svg                                                         *)
(***************************************************************************)
\* if not key in shape: shape[key] = default
Ensure(shape, key, default) ==
    IF Raised(shape) THEN shape
    ELSE IF InRaises(shape) THEN Exc("TypeError", "not iterable")
    ELSE IF In(key, shape) THEN shape
    ELSE SetKey(shape, key, default)

\* if not sub in shape[key]: shape[key][sub] = default
EnsureSub(shape, key, sub, default) ==
    IF Raised(shape) THEN shape
    ELSE LET inner == GetKey(shape, key)
         IN  IF Raised(inner) THEN inner
             ELSE IF InRaises(inner) THEN Exc("TypeError", "not iterable")
             ELSE IF In(sub, inner) THEN shape
             ELSE SetKey(shape, key, SetKey(inner, sub, default))

\* if shape[key][sub] == old: shape[key][sub] = new
ReplaceSub(shape, key, sub, old, new) ==
    IF Raised(shape) THEN shape
    ELSE LET cur == GetKey(GetKey(shape, key), sub)
         IN  IF Raised(cur) THEN cur
             ELSE IF cur = old
             THEN SetKey(shape, key, SetKey(GetKey(shape, key), sub, new))
             ELSE shape

\* Lines 120-137: the defaults of stroke, fill and justify.
WithDefaults(shape) ==
    LET s1 == Ensure(shape, "stroke", Dict(<<>>))
        s2 == EnsureSub(s1, "stroke", "type", Str("default"))
        s3 == EnsureSub(s2, "stroke", "width", Num(0))
        s4 == Ensure(s3, "fill", Dict(<<>>))
        s5 == EnsureSub(s4, "fill", "type", Str("none"))
        s6 == Ensure(s5, "justify", Str("right"))
        s7 == ReplaceSub(s6, "stroke", "type", Str("default"), Str("#000"))
    IN  ReplaceSub(s7, "stroke", "width", Num(0), Frac(1, 10))

\* The tuple (shape_svg, shape_bbox) of line 388.  shape_svg is the sequence
\* of the elements the string holds.
Result(svg, bbox) == [t |-> "result", svg |-> svg, bbox |-> bbox]

StrokeWidth(shape) == GetKey(GetKey(shape, "stroke"), "width")

FillType(shape) == GetKey(GetKey(shape, "fill"), "type")

\* Point(*v) * tx
PointOf(v, tx) == PointTx(PointOfArgs(Iter(v)), tx)

\* pt[0:2]
Slice2(pt) ==
    IF Raised(pt) THEN pt
    ELSE CASE pt.t = "list" -> List(SubSeq(pt.items, 1, Min(2, Len(pt.items))))
           [] pt.t = "str" -> Str(SubSeq(pt.v, 1, Min(2, Len(pt.v))))
           [] OTHER -> Exc("TypeError", "subscript")

\* Lines 140-155.
SvgPolyline(shape, tx) ==
    LET xy == Iter(GetKey(GetKey(shape, "pts"), "xy"))
    IN  IF Raised(xy) THEN xy
        ELSE LET points == [i \in 1..Len(xy.items) |->
                                PointOf(Slice2(xy.items[i]), tx)]
             IN  IF FirstRaised(points) # None THEN FirstRaised(points)
                 ELSE Result(<<[elem |-> "polyline",
                                points |-> points,
                                stroke_width |-> StrokeWidth(shape),
                                class |-> FillType(shape)]>>,
                             BBoxAddAll(EmptyBBox, points))

\* Lines 157-172.
SvgCircle(shape, tx) ==
    LET ctr == PointOf(GetKey(shape, "center"), tx)
        r == AsNumber(GetKey(shape, "radius"))
        err == FirstRaised(<<ctr, r>>)
    IN  IF err # None THEN err
        ELSE LET radius == PointScale(Point(Milli(r), Milli(r)), TxScale(tx))
             IN  Result(<<[elem |-> "circle",
                           cx |-> ctr.x, cy |-> ctr.y, r |-> radius.x,
                           stroke_width |-> StrokeWidth(shape),
                           class |-> FillType(shape)]>>,
                        BBoxAddAll(EmptyBBox,
                            <<Point(ctr.x + radius.x, ctr.y + radius.y),
                              Point(ctr.x - radius.x, ctr.y - radius.y)>>))

\* Lines 174-190.
SvgRectangle(shape, tx) ==
    LET start == PointOf(GetKey(shape, "start"), tx)
        end == PointOf(GetKey(shape, "end"), tx)
        err == FirstRaised(<<start, end>>)
    IN  IF err # None THEN err
        ELSE LET shape_bbox == BBoxAddAll(EmptyBBox, <<start, end>>)
             IN  Result(<<[elem |-> "rect",
                           x |-> shape_bbox.min.x, y |-> shape_bbox.min.y,
                           width |-> BBoxW(shape_bbox), height |-> BBoxH(shape_bbox),
                           stroke_width |-> StrokeWidth(shape),
                           class |-> FillType(shape)]>>,
                        shape_bbox)

\* The squared distance of two points, in whole units squared.
Dist2(p, q) ==
    ((p.x - q.x) * (p.x - q.x) + (p.y - q.y) * (p.y - q.y)) \div (Unit * Unit)

\* Lines 192-219.  With A2, B2, C2 the squares of the sides A, B, C, the cosine
\* of the angle is (A2 + B2 - C2) / (2AB) and the square of r = A*B*C/4/K is
\* A2*B2*C2 / (4*A2*B2 - (A2 + B2 - C2)^2), kept as that fraction.  The
\* divisions of lines 202 and 204 raise ZeroDivisionError for A*B = 0 and
\* for K = 0.
SvgArc(shape, tx) ==
    LET a == PointOf(GetKey(shape, "start"), tx)
        b == PointOf(GetKey(shape, "end"), tx)
        c == PointOf(GetKey(shape, "mid"), tx)
        err == FirstRaised(<<a, b, c>>)
    IN  IF err # None THEN err
        ELSE LET A2 == Dist2(b, c)
                 B2 == Dist2(a, c)
                 C2 == Dist2(a, b)
                 cosnum == A2 + B2 - C2
                 K2 == 4 * A2 * B2 - cosnum * cosnum
                 large_arc == IF cosnum > 0 THEN 1 ELSE 0
                 sweep == IF (b.x - a.x) * (c.y - a.y) - (b.y - a.y) * (c.x - a.x) < 0
                          THEN 1 ELSE 0
             IN  IF A2 = 0 \/ B2 = 0 \/ K2 = 0
                 THEN Exc("ZeroDivisionError", "float division by zero")
                 ELSE Result(<<[elem |-> "path",
                                ax |-> a.x, ay |-> a.y, bx |-> b.x, by |-> b.y,
                                r2 |-> <<A2 * B2 * C2, K2>>,
                                large_arc |-> large_arc, sweep |-> sweep,
                                stroke_width |-> StrokeWidth(shape),
                                class |-> FillType(shape)]>>,
                             BBoxAddAll(EmptyBBox, <<a, b, c>>))

\* v.lower()
LowerOf(v) ==
    IF Raised(v) THEN v
    ELSE IF v.t = "str" THEN Str(Lower(v.v))
    ELSE Exc("AttributeError", "lower")

\* A number read from a command (never the float default of line 137).
IntOf(v) ==
    IF Raised(v) THEN v
    ELSE IF v.t = "num" THEN v
    ELSE Exc("TypeError", "operand")

\* Lines 242-258 and 345-361: the rectangle of a text of len characters at
\* (x, y), as (rect_start_x, rect_start_y, rect_width, rect_height).  The
\* character is 0.6 font sizes wide; quotients are rounded down.
TextRect(x, y, rotation, font_size, len) ==
    LET char_width == (font_size * 6) \div 10
        text_width == len * char_width
        text_height == font_size
        dx == Cos(rotation)
        dy == Sin(rotation)
        rect_end_x == x + (dx * text_width + dy * text_height) \div Unit
        rect_end_y == y + (dy * text_width - dx * text_height) \div Unit
    IN  [x |-> Min(x, rect_end_x), y |-> Min(y, rect_end_y),
         w |-> Abs(rect_end_x - x), h |-> Abs(rect_end_y - y)]

\* Lines 280-284 and 379-383.
TextBBox(r) ==
    BBoxAddAll(EmptyBBox, <<Point(r.x, r.y), Point(r.x + r.w, r.y + r.h)>>)

\* Line 229: raise RuntimeError("Unknown property {symbol[1]} is not
\* hidden.".format(**locals())).  The function has no local named symbol, so
\* format raises KeyError('symbol') and the RuntimeError is never made.
UnknownPropertyError == Exc("KeyError", "symbol")

\* Lines 238-239: class_ = class_ with class_ never assigned.
UnboundClassError == Exc("UnboundLocalError", "class_")

\* Lines 221-300.
SvgProperty(shape, tx) ==
    LET label == LowerOf(GetIdx(GetKey(shape, "misc"), 0))
        is_ref == label = Str("reference")
        is_value == label = Str("value")
        effects_misc == GetKey(GetKey(shape, "effects"), "misc")
        x == GetIdx(GetKey(shape, "at"), 0)
        y == Neg(GetIdx(GetKey(shape, "at"), 1))
        rotation == GetIdx(GetKey(shape, "at"), 2)
        font_size == GetIdx(GetKey(GetKey(GetKey(shape, "effects"), "font"), "size"), 0)
        shape_text == GetIdx(GetKey(shape, "misc"), 1)
        reads == FirstRaised(<<x, y, rotation, font_size>>)
        uses == FirstRaised(<<shape_text, IntOf(font_size), PyLen(shape_text),
                              IntOf(rotation), IntOf(x)>>)
    IN  IF Raised(label) THEN label
        ELSE IF ~is_ref /\ ~is_value /\ Raised(effects_misc) THEN effects_misc
        ELSE IF ~is_ref /\ ~is_value /\ InRaises(effects_misc)
        THEN Exc("TypeError", "not iterable")
        ELSE IF ~is_ref /\ ~is_value /\ ~In("hide", effects_misc)
        THEN UnknownPropertyError
        ELSE IF reads # None THEN reads
        ELSE IF ~is_ref /\ ~is_value THEN UnboundClassError
        ELSE IF uses # None THEN uses
        ELSE LET r == TextRect(Milli(x), Milli(y), rotation.v, Milli(font_size),
                               PyLen(shape_text).v)
             IN  Result(<<[elem |-> "text",
                           class |-> IF is_ref THEN "part_ref_text" ELSE "part_name_text",
                           text_anchor |-> GetKey(shape, "justify"),
                           x |-> Milli(x), y |-> Milli(y), rotation |-> rotation.v,
                           font_size |-> Milli(font_size),
                           attribute |-> IF is_ref THEN "ref" ELSE "value",
                           text |-> shape_text]>>,
                        TextBBox(r))

\* Line 307: get_pin_info on the values read from the shape.  rotation + 45,
\* dx*length and x + dx*length raise TypeError for what is no number.
PinInfoOf(x, y, rotation, length) ==
    IF Raised(IntOf(rotation)) THEN IntOf(rotation)
    ELSE IF (rotation.v + 45) \div 90 \notin DOMAIN SideOfQuadrant
    THEN get_pin_info(0, 0, rotation.v, 0)
    ELSE IF Raised(IntOf(length)) THEN IntOf(length)
    ELSE IF Raised(IntOf(x)) THEN IntOf(x)
    ELSE get_pin_info(x.v, y.v, rotation.v, length.v)

\* Lines 302-332.  Line 307 names the tip "start" and the anchor "end".
SvgPin(shape, tx) ==
    LET x == GetIdx(GetKey(shape, "at"), 0)
        y == Neg(GetIdx(GetKey(shape, "at"), 1))
        rotation == GetIdx(GetKey(shape, "at"), 2)
        length == GetKey(shape, "length")
        reads == FirstRaised(<<x, y, rotation, length>>)
        info == PinInfoOf(x, y, rotation, length)
        name == GetKey(GetKey(shape, "name"), "misc")
        number == GetKey(GetKey(shape, "number"), "misc")
        circle_stroke_width == Twice(StrokeWidth(shape))
        rest == FirstRaised(<<name, number, circle_stroke_width>>)
    IN  IF reads # None THEN reads
        ELSE IF Raised(info) THEN info
        ELSE IF rest # None THEN rest
        ELSE LET start == info.tip
                 end == info.anchor
             IN  Result(<<[elem |-> "circle",
                           cx |-> end.x, cy |-> end.y, r |-> circle_stroke_width,
                           stroke_width |-> circle_stroke_width,
                           class |-> FillType(shape)],
                          [elem |-> "polyline",
                           points |-> <<start, end>>,
                           stroke_width |-> StrokeWidth(shape),
                           class |-> FillType(shape)]>>,
                        BBoxAddAll(EmptyBBox, <<start, end>>))

\* Lines 334-383.
SvgText(shape, tx) ==
    LET x == GetIdx(GetKey(shape, "at"), 0)
        y == Neg(GetIdx(GetKey(shape, "at"), 1))
        rotation == GetIdx(GetKey(shape, "at"), 2)
        font_size == GetIdx(GetKey(GetKey(GetKey(shape, "effects"), "font"), "size"), 0)
        shape_text == GetIdx(GetKey(shape, "misc"), 0)
        err == FirstRaised(<<x, y, rotation, font_size, shape_text, IntOf(font_size),
                             PyLen(shape_text), IntOf(rotation), IntOf(x)>>)
    IN  IF err # None THEN err
        ELSE LET r == TextRect(Milli(x), Milli(y), rotation.v, Milli(font_size),
                               PyLen(shape_text).v)
             IN  Result(<<[elem |-> "text",
                           text_anchor |-> GetKey(shape, "justify"),
                           x |-> Milli(x), y |-> Milli(y), rotation |-> rotation.v,
                           font_size |-> Milli(font_size),
                           text |-> shape_text]>>,
                        TextBBox(r))

\* The shape kinds of the branches of lines 140-334.
SupportedKinds == {"polyline", "circle", "rectangle", "arc", "property", "pin", "text"}

\* Line 386.
UnrecognizedShapeError == Exc("RuntimeError", "Unrecognized shape type")

\* Returns Result(shape_svg, shape_bbox), or the exception raised.
draw_cmd_to_svg(draw_cmd, tx) ==
    LET normal == draw_cmd_to_dict(draw_cmd)
        shape_type == normal.name
        shape == WithDefaults(normal.d)
    IN  IF Raised(shape) THEN shape
        ELSE CASE shape_type = "polyline" -> SvgPolyline(shape, tx)
               [] shape_type = "circle" -> SvgCircle(shape, tx)
               [] shape_type = "rectangle" -> SvgRectangle(shape, tx)
               [] shape_type = "arc" -> SvgArc(shape, tx)
               [] shape_type = "property" -> SvgProperty(shape, tx)
               [] shape_type = "pin" -> SvgPin(shape, tx)
               [] shape_type = "text" -> SvgText(shape, tx)
               [] OTHER -> UnrecognizedShapeError

(***************************************************************************)
(* gen_svg_comp                                                            *)
(***************************************************************************)
\* Line 404: scale of KiCad units to SVG units.
scale == 10

\* Line 586: the font size of a pin marker's text.
pin_font_size == 12

Sides == {"right", "top", "left", "bottom"}

\* The dict literal of lines 546-551: the sides under the horizontal mirror.
SideH == [side \in Sides |->
    CASE side = "right" -> "left" [] side = "top" -> "top"
      [] side = "left" -> "right" [] side = "bottom" -> "bottom"]

\* The dict literal of lines 553-558: the sides under the vertical mirror.
SideV == [side \in Sides |->
    CASE side = "right" -> "right" [] side = "top" -> "bottom"
      [] side = "left" -> "left" [] side = "bottom" -> "top"]

\* The dict literal of lines 562-567: the sides under the rotation left.
SideL == [side \in Sides |->
    CASE side = "right" -> "top" [] side = "top" -> "left"
      [] side = "left" -> "bottom" [] side = "bottom" -> "right"]

\* The dict literal of lines 572-577: the sides under the rotation right.
SideR == [side \in Sides |->
    CASE side = "right" -> "bottom" [] side = "top" -> "right"
      [] side = "left" -> "top" [] side = "bottom" -> "left"]

\* Tx.from_symtx(symtx) of skidl.schematics.geometry: the product of the
\* transforms of the operators of symtx, in their order.
OpTx(op) ==
    CASE op = "H" -> Tx(-1, 0, 0, 1, 0, 0)
      [] op = "V" -> Tx(1, 0, 0, -1, 0, 0)
      [] op = "L" -> Tx(0, 1, -1, 0, 0, 0)
      [] op = "R" -> Tx(0, -1, 1, 0, 0, 0)
      [] OTHER -> TxIdentity

RECURSIVE TxFromSymtx(_)
TxFromSymtx(symtx) ==
    IF Len(symtx) = 0 THEN TxIdentity
    ELSE TxMul(TxFromSymtx(SubSeq(symtx, 1, Len(symtx) - 1)),
               OpTx(SubSeq(symtx, Len(symtx), Len(symtx))))

\* A net a pin is attached to: None, the no-connect net NC, or a named net.
NC == [t |-> "NC"]

Net(name) == [t |-> "net", name |-> name]

\* Lines 411-416: the nets of one pin.
RECURSIVE NetLoop(_, _, _)
NetLoop(nets, stubs, max_stub_len) ==
    IF Len(nets) = 0 THEN max_stub_len
    ELSE LET net == Head(nets)
         IN  NetLoop(Tail(nets), stubs,
                IF net \in {NC, None} THEN max_stub_len
                ELSE IF \E k \in 1..Len(stubs) : stubs[k] = net
                THEN Max(Len(net.name), max_stub_len)
                ELSE max_stub_len)

\* Lines 410-416: the pins of the part.
RECURSIVE PinLoop(_, _, _)
PinLoop(pins, stubs, max_stub_len) ==
    IF Len(pins) = 0 THEN max_stub_len
    ELSE PinLoop(Tail(pins), stubs, NetLoop(Head(pins).nets, stubs, max_stub_len))

\* Lines 408-416: the longest name of the stub nets on the part's pins, 0 if
\* no net stubs are needed.
MaxStubLen(part, net_stubs) ==
    PinLoop(part.pins, IF net_stubs = None THEN <<>> ELSE net_stubs.items, 0)

\* Lines 429-438.
SymbolName(part, unit, symtx, max_stub_len) ==
    IF max_stub_len # 0
    THEN part.name \o "_" \o part.ref \o "_" \o unit.num \o "_" \o symtx
    ELSE part.name \o "_" \o unit.num \o "_" \o symtx

\* Lines 462-470: (scale_x, scale_y) of the mirror-axis group.
MirrorScale(symtx) ==
    IF IsSubstr("H", symtx) THEN <<-1, 1>>
    ELSE IF IsSubstr("V", symtx) THEN <<1, -1>>
    ELSE <<1, 1>>

\* Lines 472-477: the angle of the orientation group.
GroupRotation(symtx) ==
    IF IsSubstr("R", symtx) THEN 90
    ELSE IF IsSubstr("L", symtx) THEN 270
    ELSE 0

\* The text a value is formatted to holds "text".
RECURSIVE FormatHasText(_)
FormatHasText(v) ==
    CASE v.t = "str" -> IsSubstr("text", v.v)
      [] v.t = "list" -> \E i \in 1..Len(v.items) : FormatHasText(v.items[i])
      [] v.t = "dict" -> \E i \in 1..Len(v.kv) :
                            IsSubstr("text", v.kv[i].k) \/ FormatHasText(v.kv[i].v)
      [] OTHER -> FALSE

\* item.startswith("<text") in the place of "text" in item: the element is a
\* text element.
HasTextTag(item) == \E i \in 1..Len(item) : item[i].elem = "text"

\* "text" in item (lines 506 and 511): the string of a text element holds
\* "<text", that of another element holds the stroke width and the fill type
\* it was formatted with.
HasText(item) ==
    \E i \in 1..Len(item) :
        \/ item[i].elem = "text"
        \/ FormatHasText(item[i].stroke_width)
        \/ FormatHasText(item[i].class)

\* Lines 425-426: bbox and unit_svg take in the result r of one drawing
\* command; the exception if the call raised.
CmdStep(acc, r) ==
    IF Raised(r) THEN r
    ELSE [t |-> "acc",
          bbox |-> BBoxUnion(acc.bbox, r.bbox),
          unit_svg |-> Append(acc.unit_svg, r.svg)]

\* Lines 423-426: draw_cmd_to_svg of each drawing command from command i on,
\* acc holding bbox and unit_svg; the exception if a call raises.
RECURSIVE CmdLoop(_, _, _)
CmdLoop(cmds, i, acc) ==
    IF Raised(acc) \/ i > Len(cmds) THEN acc
    ELSE CmdLoop(cmds, i + 1, CmdStep(acc, draw_cmd_to_svg(cmds[i], TxIdentity)))

\* Lines 538-601: the marker of one pin, or the exception of get_pin_info.
PinMarker(pin, symtx) ==
    LET info == get_pin_info(pin.x, pin.y, pin.rotation, pin.length)
    IN  IF Raised(info) THEN info
        ELSE LET H == IsSubstr("H", symtx)
                 V == IsSubstr("V", symtx)
                 L == IsSubstr("L", symtx)
                 R == IsSubstr("R", symtx)
                 p0 == info.anchor
                 p1 == IF H THEN Point(-p0.x, p0.y)
                       ELSE IF V THEN Point(p0.x, -p0.y)
                       ELSE p0
                 side1 == IF H THEN SideH[info.side]
                          ELSE IF V THEN SideV[info.side]
                          ELSE info.side
                 p2 == IF L THEN Point(p1.y, -p1.x)
                       ELSE IF R THEN Point(-p1.y, p1.x)
                       ELSE p1
                 side2 == IF L THEN SideL[side1]
                          ELSE IF R THEN SideR[side1]
                          ELSE side1
                 pin_pt == PointScale(p2, scale)
             IN  [t |-> "marker", elem |-> "pin",
                  x |-> pin_pt.x, y |-> pin_pt.y, pid |-> pin.num,
                  position |-> side2,
                  font_size |-> pin_font_size, text_anchor |-> "left"]

\* Lines 504-513: the elements of unit_svg, those without "text" when text is
\* FALSE and those with it when text is TRUE, in their order.
RECURSIVE SvgItems(_, _, _)
SvgItems(unit_svg, i, text) ==
    IF i > Len(unit_svg) THEN <<>>
    ELSE (IF HasText(unit_svg[i]) = text
          THEN <<[elem |-> "shape", svg |-> unit_svg[i]]>> ELSE <<>>)
         \o SvgItems(unit_svg, i + 1, text)

\* Lines 428-601: the elements written for one unit from the name of its
\* symbol, the shapes drawn, their bounding box and the pin markers.
UnitElements(symbol_name, symtx, unit_svg, tx_bbox, markers) ==
    <<[elem |-> "g", type |-> symbol_name,
       width |-> tx_bbox.max.x - tx_bbox.min.x,
       height |-> tx_bbox.max.y - tx_bbox.min.y,
       translate_x |-> -tx_bbox.min.x,
       translate_y |-> -tx_bbox.min.y],
      [elem |-> "alias", val |-> symbol_name],
      [elem |-> "g", pid |-> ""],
      [elem |-> "g", scale |-> scale, rotation |-> GroupRotation(symtx)],
      [elem |-> "g", scale_x |-> MirrorScale(symtx)[1],
                     scale_y |-> MirrorScale(symtx)[2]]>>
    \o SvgItems(unit_svg, 1, FALSE)
    \o <<[elem |-> "/g"]>>
    \o SvgItems(unit_svg, 1, TRUE)
    \o <<[elem |-> "/g"], [elem |-> "/g"],
         [elem |-> "rect",
          x |-> tx_bbox.min.x,
          y |-> tx_bbox.min.y,
          width |-> tx_bbox.max.x - tx_bbox.min.x,
          height |-> tx_bbox.max.y - tx_bbox.min.y]>>
    \o markers
    \o <<[elem |-> "/g"]>>

\* Lines 428-604 once the drawing commands of the unit are drawn: the
\* exception of the drawing or of a pin, else the elements of the unit.
UnitDrawn(part, unit, symtx, max_stub_len, drawn, markers) ==
    IF Raised(drawn) THEN drawn
    ELSE IF FirstRaised(markers) # None THEN FirstRaised(markers)
    ELSE [t |-> "svg", items |->
            UnitElements(SymbolName(part, unit, symtx, max_stub_len), symtx,
                         drawn.unit_svg,
                         BBoxTx(drawn.bbox, TxTimes(TxFromSymtx(symtx), scale)),
                         markers)]

\* Lines 421-604: the elements of one unit, or the exception raised.
UnitSvg(part, unit, symtx, max_stub_len) ==
    UnitDrawn(part, unit, symtx, max_stub_len,
              CmdLoop(unit.draw_cmds, 1,
                      [t |-> "acc", bbox |-> EmptyBBox, unit_svg |-> <<>>]),
              [i \in 1..Len(unit.pins) |-> PinMarker(unit.pins[i], symtx)])

\* Line 604: the elements u of a unit are written after those of the units
\* before it; the exception if the unit raised.
SvgExtend(svg, u) ==
    IF Raised(u) THEN u ELSE [t |-> "svg", items |-> svg.items \o u.items]

\* Lines 420-606 over the units from unit i on: the elements of all of them,
\* or the first exception raised.
RECURSIVE UnitLoop(_, _, _, _, _)
UnitLoop(part, i, symtx, max_stub_len, svg) ==
    IF Raised(svg) \/ i > Len(part.units) THEN svg
    ELSE UnitLoop(part, i + 1, symtx, max_stub_len,
                  SvgExtend(svg, UnitSvg(part, part.units[i], symtx, max_stub_len)))

\* Returns the elements of the SVG, or the exception raised.
gen_svg_comp(part, symtx, net_stubs) ==
    UnitLoop(part, 1, symtx, MaxStubLen(part, net_stubs),
             [t |-> "svg", items |-> <<>>])

(***************************************************************************)
(* The drawing commands given to the normaliser.                           *)
(***************************************************************************)
\* Kind labels of the generic commands.  "misc" is also the key the
\* normaliser files scalar children under.
Labels == {"xy", "misc"}

Scalars == {Num(0), Str("hide")}

\* Commands whose children are all scalars.
LeafCmds == {Cmd(n, s) : n \in Labels, s \in SeqsUpTo(Scalars, MaxItems)}

\* Commands whose children are scalars or commands of scalars.
Cmds == {Cmd(n, s) : n \in Labels, s \in SeqsUpTo(Scalars \cup LeafCmds, MaxItems)}

(***************************************************************************)
(* The drawing commands given to the renderer, written as the symbol       *)
(* library has them, e.g.                                                  *)
(*   (polyline (pts (xy 0 0) (xy 1 1)) (stroke (width 0) (type default))   *)
(*             (fill (type none)))                                         *)
(*   (property "Reference" "R" (at 0 0 0) (effects (font (size 1 1)) hide))*)
(***************************************************************************)
Coords == {-2, 0, 1}

XY(x, y) == Cmd("xy", <<Num(x), Num(y)>>)

\* ps is a sequence of pairs <<x, y>>.
Pts(ps) == Cmd("pts", [i \in 1..Len(ps) |-> XY(ps[i][1], ps[i][2])])

StrokeCmd == Cmd("stroke", <<Cmd("width", <<Num(0)>>), Cmd("type", <<Str("default")>>)>>)

FillCmd(type) == Cmd("fill", <<Cmd("type", <<Str(type)>>)>>)

\* No style children, or a stroke and a fill.
Styles == {<<>>, <<StrokeCmd, FillCmd("background")>>}

At(x, y, rotation) == Cmd("at", <<Num(x), Num(y), Num(rotation)>>)

Ats == {At(0, 0, 0), At(1, -2, 90), At(-2, 1, 180)}

\* flags is the sequence of the scalar flags that follow the font.
Effects(flags) ==
    Cmd("effects", <<Cmd("font", <<Cmd("size", <<Num(1), Num(1)>>)>>)>> \o flags)

Flags == {Str("hide"), Str("italic")}

\* The corners a polyline goes through.
Corners == {<<0, 0>>, <<1, -2>>, <<-2, 1>>}

PolylineCmds ==
    {Cmd("polyline", <<Pts(ps)>> \o style) :
        ps \in SeqsUpTo(Corners, MaxPoints), style \in Styles}

CircleCmds ==
    {Cmd("circle", <<Cmd("center", <<Num(x), Num(y)>>), Cmd("radius", <<Num(r)>>)>>
                   \o style) :
        x \in Coords, y \in Coords, r \in {1, 2}, style \in Styles}

RectangleCmds ==
    {Cmd("rectangle", <<Cmd("start", <<Num(p[1]), Num(p[2])>>),
                        Cmd("end", <<Num(q[1]), Num(q[2])>>)>>) :
        p \in Coords \X Coords, q \in Coords \X Coords}

\* Three points on no line, as the arcs of a symbol have.
OnALine(p, q, m) ==
    (q[1] - p[1]) * (m[2] - p[2]) = (q[2] - p[2]) * (m[1] - p[1])

ArcCmds ==
    {Cmd("arc", <<Cmd("start", <<Num(t[1][1]), Num(t[1][2])>>),
                  Cmd("mid", <<Num(t[3][1]), Num(t[3][2])>>),
                  Cmd("end", <<Num(t[2][1]), Num(t[2][2])>>)>>) :
        t \in {u \in (Coords \X Coords) \X (Coords \X Coords) \X (Coords \X Coords) :
                    ~OnALine(u[1], u[2], u[3])}}

PropertyLabels == {"Reference", "reference", "Value", "foo", "Footprint"}

PropertyCmds ==
    {Cmd("property", <<Str(label), Str("R1"), at, Effects(flags)>>) :
        label \in PropertyLabels, at \in Ats, flags \in SeqsUpTo(Flags, MaxFlags)}

PinCmds ==
    {Cmd("pin", <<Str("passive"), Str("line"), at, Cmd("length", <<Num(len)>>),
                  Cmd("name", <<Str("A"), Effects(<<>>)>>),
                  Cmd("number", <<Str("1"), Effects(<<>>)>>)>>) :
        at \in Ats \cup {At(0, 1, 270), At(0, 0, 315)}, len \in {0, 2}}

TextCmds ==
    {Cmd("text", <<Str(text)>> \o more \o <<at, Effects(<<>>)>>) :
        text \in {"A", "VCC"}, more \in {<<>>, <<Str("x")>>}, at \in Ats}

\* Commands of a kind gen_svg.py has no branch for.
OtherCmds ==
    Cmds \cup {Cmd("bezier", <<Pts(<<<<0, 0>>, <<1, 1>>>>)>> \o style) : style \in Styles}

Txs ==
    {TxIdentity, Tx(1, 0, 0, 1, 1, -2), Tx(0, 1, -1, 0, 0, 0), Tx(-1, 0, 0, 1, 0, 0),
     Tx(2, 0, 0, 2, 0, 0)}

\* The (draw_cmd, tx) given to draw_cmd_to_svg.  The commands of no known kind
\* and the texts, which read no transform, go with the identity.
SvgCalls ==
    ((PolylineCmds \cup CircleCmds \cup RectangleCmds \cup ArcCmds) \X Txs)
    \cup ((PropertyCmds \cup PinCmds \cup TextCmds \cup OtherCmds) \X {TxIdentity})

(***************************************************************************)
(* The parts given to the composer.  A part has a name, a reference, its   *)
(* pins and its units; a unit has a number, its drawing commands and its   *)
(* pins; a pin has an anchor, a rotation, a length, a number and nets.     *)
(***************************************************************************)
RECURSIVE Concat(_)
Concat(strs) == IF Len(strs) = 0 THEN "" ELSE Head(strs) \o Concat(Tail(strs))

\* The symmetry-operator strings: combinations of H, V, L and R.
Symtxs == {Concat(ops) : ops \in SeqsUpTo({"H", "V", "L", "R"}, MaxSymtx)}

PartPin(x, y, rotation, nets) ==
    [x |-> x, y |-> y, rotation |-> rotation, length |-> 2, num |-> "1", nets |-> nets]

PartUnit(num, draw_cmds, pins) == [num |-> num, draw_cmds |-> draw_cmds, pins |-> pins]

\* The part iterates over the pins of its units.
RECURSIVE PinsOf(_)
PinsOf(units) == IF Len(units) = 0 THEN <<>> ELSE Head(units).pins \o PinsOf(Tail(units))

Part(units) == [name |-> "R", ref |-> "R1", pins |-> PinsOf(units), units |-> units]

Body == Cmd("rectangle", <<Cmd("start", <<Num(-1), Num(2)>>),
                           Cmd("end", <<Num(1), Num(-2)>>)>> \o <<StrokeCmd, FillCmd("background")>>)

\* Pins on each side, off the origin, on no net.
PlacedPins ==
    {PartPin(a[1], a[2], rotation, <<>>) :
        a \in {<<-2, 1>>}, rotation \in {0, 90, 180, 270}}

\* One unit, its pins placed every way, under every symmetry operator.
PlacedCalls ==
    {<<Part(<<PartUnit("1", <<Body>>, pins)>>), symtx, None>> :
        pins \in SeqsUpTo(PlacedPins, MaxPins), symtx \in Symtxs}

Nets == {None, NC, Net(""), Net("A"), Net("VCC")}

StubLists ==
    {None, List(<<>>), List(<<Net("VCC")>>), List(<<Net(""), Net("A")>>), List(<<NC>>)}

\* n units of one pin each, the first unit's pin on the given nets.
NettedUnits(n, nets) ==
    [i \in 1..n |->
        PartUnit(IF i = 1 THEN "1" ELSE IF i = 2 THEN "2" ELSE "3", <<Body>>,
             <<PartPin(1, 0, 0, IF i = 1 THEN nets ELSE <<>>)>>)]

\* Parts whose pins are on nets, with and without net stubs.
NettedCalls ==
    {<<Part(NettedUnits(n, nets)), symtx, net_stubs>> :
        n \in 1..MaxUnits, nets \in SeqsUpTo(Nets, MaxNets), symtx \in {"", "H"},
        net_stubs \in StubLists}

\* Drawing commands of a unit: outlines, one of them of a fill type whose name
\* holds "text", texts, and a hidden property.
UnitShapes ==
    {Body,
     Cmd("polyline", <<Pts(<<<<0, 0>>, <<1, 1>>>>)>>),
     Cmd("circle", <<Cmd("center", <<Num(0), Num(0)>>), Cmd("radius", <<Num(1)>>)>>),
     Cmd("circle", <<Cmd("center", <<Num(0), Num(0)>>), Cmd("radius", <<Num(1)>>),
                     FillCmd("context")>>),
     Cmd("text", <<Str("A"), Str("x"), At(0, 0, 0), Effects(<<>>)>>),
     Cmd("property", <<Str("Reference"), Str("R"), At(0, 1, 0), Effects(<<>>)>>),
     Cmd("property", <<Str("Footprint"), Str(""), At(0, 0, 0), Effects(<<Str("hide")>>)>>)}

\* One unit of every short list of drawing commands, not the empty one.
DrawnCalls ==
    {<<Part(<<PartUnit("1", cmds, pins)>>), symtx, None>> :
        cmds \in SeqsUpTo(UnitShapes, MaxCmds) \ {<<>>},
        pins \in {<<>>, <<PartPin(1, 0, 0, <<>>)>>, <<PartPin(0, 1, 315, <<>>)>>},
        symtx \in {"", "R", "HL"}}

CompCalls == PlacedCalls \cup NettedCalls \cup DrawnCalls

(***************************************************************************)
(* The caller.                                                             *)
(***************************************************************************)
Init ==
    /\ pc = "ready"
    /\ fn = "none"
    /\ arg = None
    /\ ret = None

CallDrawCmdToDict ==
    /\ pc = "ready"
    /\ \E symbol \in Cmds :
        /\ arg' = symbol
        /\ ret' = draw_cmd_to_dict(symbol)
    /\ fn' = "draw_cmd_to_dict"
    /\ pc' = "done"

\* The anchors, rotations and lengths of the pins given to get_pin_info.
PinCoords == {-1, 0, 2}

PinRotations == 0..359

PinLengths == {0, 3}

CallGetPinInfo ==
    /\ pc = "ready"
    /\ \E x \in PinCoords, y \in PinCoords, rotation \in PinRotations,
          length \in PinLengths :
        /\ arg' = [x |-> x, y |-> y, rotation |-> rotation, length |-> length]
        /\ ret' = get_pin_info(x, y, rotation, length)
    /\ fn' = "get_pin_info"
    /\ pc' = "done"

CallDrawCmdToSvg ==
    /\ pc = "ready"
    /\ \E call \in SvgCalls :
        /\ arg' = [draw_cmd |-> call[1], tx |-> call[2]]
        /\ ret' = draw_cmd_to_svg(call[1], call[2])
    /\ fn' = "draw_cmd_to_svg"
    /\ pc' = "done"

CallGenSvgComp ==
    /\ pc = "ready"
    /\ \E call \in CompCalls :
        /\ arg' = [part |-> call[1], symtx |-> call[2], net_stubs |-> call[3]]
        /\ ret' = gen_svg_comp(call[1], call[2], call[3])
    /\ fn' = "gen_svg_comp"
    /\ pc' = "done"

Return ==
    /\ pc = "done"
    /\ pc' = "ready"
    /\ fn' = "none"
    /\ arg' = None
    /\ ret' = None

Next ==
    \/ CallDrawCmdToDict
    \/ CallGetPinInfo
    \/ CallDrawCmdToSvg
    \/ CallGenSvgComp
    \/ Return

Spec == Init /\ [][Next]_vars

(***************************************************************************)
(* The normaliser's claims.                                                *)
(***************************************************************************)
IsScalar(item) == item.t # "cmd"

AllScalars(items) == \A i \in 1..Len(items) : IsScalar(items[i])

\* The values of the nested children of a command that resolve to kind k,
\* in the order of the children.
ValuesOfKind(items, k) ==
    LET same == SelectSeq(items, LAMBDA it : it.t = "cmd" /\ it.name = k)
    IN  [i \in 1..Len(same) |-> draw_cmd_to_dict(same[i]).d]

\* d, the record of the command symbol, groups its nested children by kind:
\* a list of the values, in order, for two or more of a kind, the bare value
\* for one.
GroupedByKind(symbol, d) ==
    d.t = "dict" =>
      \A i \in 1..Len(symbol.items) :
        symbol.items[i].t = "cmd" =>
          LET k == symbol.items[i].name
              vals == ValuesOfKind(symbol.items, k)
          IN  /\ DictHas(d.kv, k)
              /\ Len(vals) >= 2 => DictGet(d.kv, k) = List(vals)
              /\ Len(vals) = 1 => DictGet(d.kv, k) = vals[1]

\* C1: for every drawing command and every key of its record, two or more
\* nested children of the same kind are held as the list of their values in
\* the original order, and a single one as its bare value; the same holds
\* for the record of every nested command.
C1_SameKindChildrenGrouped ==
    (pc = "done" /\ fn = "draw_cmd_to_dict") =>
        /\ GroupedByKind(arg, ret.d)
        /\ \A i \in 1..Len(arg.items) :
             arg.items[i].t = "cmd" =>
                GroupedByKind(arg.items[i], draw_cmd_to_dict(arg.items[i]).d)

\* C2 as stated: a command with no nested-command children and any number
\* of scalar children has the flat list of those scalars as its record.
C2_ScalarsOnlyGiveFlatList ==
    (pc = "done" /\ fn = "draw_cmd_to_dict" /\ AllScalars(arg.items)) =>
        ret.d = List(arg.items)

\* C2 as amended: with no nested-command children the record is never a
\* keyed mapping; it is the flat list of the scalars, in order, when there
\* are two or more, the bare scalar when there is exactly one, and with no
\* child at all the call raises KeyError and returns no record.
C2_ScalarsOnlyGiveListOrBareValue ==
    (pc = "done" /\ fn = "draw_cmd_to_dict" /\ AllScalars(arg.items)) =>
        /\ ret.name = arg.name
        /\ ret.d.t # "dict"
        /\ Len(arg.items) >= 2 => ret.d = List(arg.items)
        /\ Len(arg.items) = 1 => ret.d = arg.items[1]
        /\ Len(arg.items) = 0 => ret.d = Exc("KeyError", "misc")

\* A command with exactly one scalar child and no other has been normalised
\* to that bare scalar.
C2_Witness ==
    /\ pc = "done"
    /\ fn = "draw_cmd_to_dict"
    /\ Len(arg.items) = 1
    /\ IsScalar(arg.items[1])
    /\ ret.d = arg.items[1]

(***************************************************************************)
(* The pin geometry resolver's claims.                                     *)
(***************************************************************************)
\* C3: for every whole rotation in 0..359, any anchor and any length,
\* get_pin_info returns a compass side, the entry of (right, top, left,
\* bottom) at index floor((rotation + 45) / 90) mod 4.
C3_SideIsQuadrantMod4 ==
    (pc = "done" /\ fn = "get_pin_info" /\ arg.rotation \in 0..359) =>
        /\ ~Raised(ret)
        /\ ret.side = SideOfQuadrant[((arg.rotation + 45) \div 90) % 4]

(***************************************************************************)
(* The shape renderer's claims.                                            *)
(***************************************************************************)
RenderedShape == pc = "done" /\ fn = "draw_cmd_to_svg"

\* The draw command is a property of the library's form: a label and a text,
\* a placement and a text-effects sub-record.
IsPropertyCmd(cmd) ==
    /\ cmd.name = "property"
    /\ Len(cmd.items) = 4
    /\ cmd.items[1].t = "str"
    /\ cmd.items[2].t = "str"
    /\ cmd.items[3].t = "cmd" /\ cmd.items[3].name = "at"
    /\ cmd.items[4].t = "cmd" /\ cmd.items[4].name = "effects"

PropertyLabel(cmd) == Lower(cmd.items[1].v)

\* The text-effects sub-record of the property carries the hide flag.
HasHideFlag(cmd) ==
    \E i \in 1..Len(cmd.items[4].items) : cmd.items[4].items[i] = Str("hide")

\* C6: a property with no hide flag is rendered as a text element with the
\* distinguishing class and s:attribute when its label is "reference" or
\* "value" in any case, and otherwise fails with the RuntimeError "Unknown
\* property ... is not hidden" and returns nothing.
C6_VisiblePropertyRendersOrRuntimeError ==
    (RenderedShape /\ IsPropertyCmd(arg.draw_cmd) /\ ~HasHideFlag(arg.draw_cmd)) =>
        LET label == PropertyLabel(arg.draw_cmd)
        IN  /\ label = "reference" =>
                /\ ~Raised(ret)
                /\ Len(ret.svg) = 1
                /\ ret.svg[1].elem = "text"
                /\ ret.svg[1].class = "part_ref_text"
                /\ ret.svg[1].attribute = "ref"
            /\ label = "value" =>
                /\ ~Raised(ret)
                /\ Len(ret.svg) = 1
                /\ ret.svg[1].elem = "text"
                /\ ret.svg[1].class = "part_name_text"
                /\ ret.svg[1].attribute = "value"
            /\ label \notin {"reference", "value"} =>
                ret = Exc("RuntimeError", "Unknown property")

\* C7: a drawing command whose kind is none of polyline, circle, rectangle,
\* arc, property, pin, text, whatever its children, fails with the
\* RuntimeError "Unrecognized shape type" and returns nothing.
C7_UnknownKindRaisesUnrecognizedShape ==
    (RenderedShape /\ arg.draw_cmd.name \notin SupportedKinds) =>
        ret = UnrecognizedShapeError

\* The draw command is a polyline whose first child is a points list of
\* coordinate pairs, n >= 1 of them.
IsPolylineCmd(cmd) ==
    /\ cmd.name = "polyline"
    /\ Len(cmd.items) >= 1
    /\ cmd.items[1].t = "cmd" /\ cmd.items[1].name = "pts"
    /\ Len(cmd.items[1].items) >= 1
    /\ \A i \in 1..Len(cmd.items[1].items) :
        LET xy == cmd.items[1].items[i]
        IN  /\ xy.t = "cmd" /\ xy.name = "xy"
            /\ Len(xy.items) = 2
            /\ xy.items[1].t = "num" /\ xy.items[2].t = "num"

\* The coordinate pairs of the polyline, each mapped through tx.
TransformedPoints(cmd, tx) ==
    [i \in 1..Len(cmd.items[1].items) |->
        LET xy == cmd.items[1].items[i]
        IN  PointTx(Point(xy.items[1].v * Unit, xy.items[2].v * Unit), tx)]

\* The bounding box of a non-empty sequence of points.
UnionOfPoints(ps) ==
    LET xs == {ps[i].x : i \in 1..Len(ps)}
        ys == {ps[i].y : i \in 1..Len(ps)}
    IN  [t |-> "bbox", empty |-> FALSE,
         min |-> Point(CHOOSE x \in xs : \A o \in xs : x <= o,
                       CHOOSE y \in ys : \A o \in ys : y <= o),
         max |-> Point(CHOOSE x \in xs : \A o \in xs : x >= o,
                       CHOOSE y \in ys : \A o \in ys : y >= o)]

\* C9: for a polyline with n >= 1 coordinate pairs, draw_cmd_to_svg under tx
\* returns the bounding box of the n transformed points and a polyline
\* element listing those points in input order.
C9_PolylineListsTransformedPoints ==
    (RenderedShape /\ IsPolylineCmd(arg.draw_cmd)) =>
        LET points == TransformedPoints(arg.draw_cmd, arg.tx)
        IN  /\ ~Raised(ret)
            /\ Len(ret.svg) = 1
            /\ ret.svg[1].elem = "polyline"
            /\ ret.svg[1].points = points
            /\ ret.bbox = UnionOfPoints(points)

\* C10: a property whose label is neither "reference" nor "value" and whose
\* text-effects sub-record carries the hide flag is rendered: the call returns
\* an SVG string and a bounding box.
C10_HiddenPropertyRenders ==
    (/\ RenderedShape
     /\ IsPropertyCmd(arg.draw_cmd)
     /\ PropertyLabel(arg.draw_cmd) \notin {"reference", "value"}
     /\ HasHideFlag(arg.draw_cmd)) =>
        /\ ~Raised(ret)
        /\ ret.t = "result"


(***************************************************************************)
(* The composer's claims.                                                  *)
(***************************************************************************)
\* A call of gen_svg_comp that returned the elements of the SVG.
Composed == pc = "done" /\ fn = "gen_svg_comp" /\ ~Raised(ret)

\* The pin markers among the elements, in the order of the part's pins.
MarkersOf(items) == SelectSeq(items, LAMBDA e : e.elem = "pin")

\* The groups that carry a unit's symbol name, in the order of the units.
TypeGroupsOf(items) ==
    SelectSeq(items, LAMBDA e : e.elem = "g" /\ "type" \in DOMAIN e)

AliasesOf(items) == SelectSeq(items, LAMBDA e : e.elem = "alias")

\* The side the resolver gives a pin before any symmetry operator.
StartingSide(pin) == get_pin_info(pin.x, pin.y, pin.rotation, pin.length).side

TableOf(op) ==
    CASE op = "H" -> SideH [] op = "V" -> SideV
      [] op = "L" -> SideL [] op = "R" -> SideR

\* C4: each of the four side tables is a bijection on the four sides, and
\* under a string of two operators the side reported for every pin is the
\* starting side taken through the table of the first operator and then
\* through the table of the second.
C4_SideTablesComposeInOrder ==
    /\ \A T \in {SideH, SideV, SideL, SideR} :
          DOMAIN T = Sides /\ {T[side] : side \in Sides} = Sides
    /\ (Composed /\ Len(arg.symtx) = 2) =>
          \A i \in 1..Len(arg.part.pins) :
              MarkersOf(ret.items)[i].position =
                  TableOf(SubSeq(arg.symtx, 2, 2))[
                      TableOf(SubSeq(arg.symtx, 1, 1))[StartingSide(arg.part.pins[i])]]

\* The direction a side faces, y growing downwards, and the side of a
\* direction.
DirOfSide(side) ==
    CASE side = "right" -> Point(1, 0) [] side = "left" -> Point(-1, 0)
      [] side = "top" -> Point(0, -1) [] side = "bottom" -> Point(0, 1)

SideOfDir(p) == CHOOSE side \in Sides : DirOfSide(side) = p

\* What the mirror-axis group of scales (sx, sy) inside the orientation group
\* of the given angle does to a point of the graphics.
GroupMap(p, sx, sy, angle) ==
    LET m == Point(sx * p.x, sy * p.y)
    IN  CASE angle = 0 -> m
          [] angle = 90 -> Point(-m.y, m.x)
          [] angle = 270 -> Point(m.y, -m.x)

\* C5: under every symmetry-operator string, every pin marker is where the
\* mirror (scale_x, scale_y) and the rotation angle written for the unit's
\* graphics take the pin's anchor, and on the side they take its starting
\* side to.
C5_PinsFollowGraphicsTransform ==
    (Composed /\ Len(arg.part.pins) > 0) =>
        LET angle == ret.items[4].rotation
            sx == ret.items[5].scale_x
            sy == ret.items[5].scale_y
        IN  \A i \in 1..Len(arg.part.pins) :
                LET pin == arg.part.pins[i]
                    info == get_pin_info(pin.x, pin.y, pin.rotation, pin.length)
                    marker == MarkersOf(ret.items)[i]
                IN  /\ Point(marker.x, marker.y) =
                          PointScale(GroupMap(info.anchor, sx, sy, angle), ret.items[4].scale)
                    /\ marker.position =
                          SideOfDir(GroupMap(DirOfSide(info.side), sx, sy, angle))

\* A pin of the part is attached to a net, other than no-connect and None,
\* that is in net_stubs.
StubRequired(part, net_stubs) ==
    /\ net_stubs # None
    /\ \E i \in 1..Len(part.pins) : \E j \in 1..Len(part.pins[i].nets) :
          /\ part.pins[i].nets[j] \notin {NC, None}
          /\ \E k \in 1..Len(net_stubs.items) : net_stubs.items[k] = part.pins[i].nets[j]

\* C8: the symbol name of every unit, in its s:type and its s:alias, holds the
\* part reference if a net stub is required, and does not hold it otherwise.
C8_NameScopedIffStubRequired ==
    Composed =>
        \A u \in 1..Len(arg.part.units) :
            LET unit == arg.part.units[u]
                name == IF StubRequired(arg.part, arg.net_stubs)
                        THEN arg.part.name \o "_" \o arg.part.ref \o "_" \o unit.num
                                \o "_" \o arg.symtx
                        ELSE arg.part.name \o "_" \o unit.num \o "_" \o arg.symtx
            IN  /\ TypeGroupsOf(ret.items)[u].type = name
                /\ AliasesOf(ret.items)[u].val = name

\* The elements of each unit: from the group that carries a symbol name to the
\* element before the next such group.
IsNamedGroup(e) == e.elem = "g" /\ "type" \in DOMAIN e

UnitSeqsOf(items) ==
    LET starts == {i \in 1..Len(items) : IsNamedGroup(items[i])}
        stop(i) == IF \E j \in starts : j > i
                   THEN (CHOOSE j \in starts : j > i /\ \A k \in starts : k > i => j <= k) - 1
                   ELSE Len(items)
    IN  {SubSeq(items, i, stop(i)) : i \in starts}

\* Groups opened less groups closed in the first k elements of s.  A pin
\* marker opens and closes its own group.
Depth(s, k) ==
    Cardinality({i \in 1..k : s[i].elem = "g"})
        - Cardinality({i \in 1..k : s[i].elem = "/g"})

\* The element that closes the group opened by element i of s.
CloseOf(s, i) ==
    CHOOSE j \in (i + 1)..Len(s) :
        /\ Depth(s, j) = Depth(s, i - 1)
        /\ \A k \in i..(j - 1) : Depth(s, k) > Depth(s, i - 1)

IsShape(e) == e.elem = "shape"

\* A shape drawn from a text or a property command.
IsTextShape(e) == \E i \in 1..Len(e.svg) : e.svg[i].elem = "text"

\* The string of the shape holds "text": it is a text element, or the fill
\* type in its class attribute holds "text".
HoldsText(e) ==
    \E i \in 1..Len(e.svg) :
        \/ e.svg[i].elem = "text"
        \/ e.svg[i].class.t = "str" /\ IsSubstr("text", e.svg[i].class.v)

\* Closed groups never exceed opened ones, every group is closed at the end,
\* every shape lies inside the orientation group (element 4), every pin
\* marker outside it and inside the outer group (element 1).
GroupsNest(s) ==
    /\ \A k \in 1..Len(s) : Depth(s, k) >= 0
    /\ Depth(s, Len(s)) = 0
    /\ \A k \in 1..(Len(s) - 1) : Depth(s, k) > 0
    /\ CloseOf(s, 1) = Len(s)
    /\ \A i \in 1..Len(s) :
          /\ IsShape(s[i]) => 4 < i /\ i < CloseOf(s, 4)
          /\ s[i].elem = "pin" => CloseOf(s, 4) < i /\ i < CloseOf(s, 1)

\* The five elements a unit opens with.
UnitOpens(s) ==
    /\ Len(s) >= 5
    /\ IsNamedGroup(s[1])
    /\ s[2].elem = "alias"
    /\ s[3].elem = "g" /\ "pid" \in DOMAIN s[3]
    /\ s[4].elem = "g" /\ "rotation" \in DOMAIN s[4]
    /\ s[5].elem = "g" /\ "scale_x" \in DOMAIN s[5]

\* From element from on: the closes of the groups still open inside the outer
\* one, closes of them, then the rectangle, the pin markers and the close of
\* the outer group.
UnitCloses(s, from, closes) ==
    /\ Len(s) >= from + closes + 1
    /\ \A i \in from..(from + closes - 1) : s[i].elem = "/g"
    /\ s[from + closes].elem = "rect"
    /\ \A i \in (from + closes + 1)..(Len(s) - 1) : s[i].elem = "pin"
    /\ s[Len(s)].elem = "/g"

\* The sequence as the claim gives it: the shapes in one run inside the
\* mirror-axis group, no text shape before a non-text shape, then the three
\* inner groups closed.
EmittedAsOneRun(s) ==
    /\ UnitOpens(s)
    /\ \E n \in 0..Len(s) :
          /\ \A i \in 6..(5 + n) : IsShape(s[i])
          /\ \A i, j \in 6..(5 + n) : i < j => ~(IsTextShape(s[i]) /\ ~IsTextShape(s[j]))
          /\ UnitCloses(s, 6 + n, 3)
    /\ GroupsNest(s)

\* The sequence with the mirror-axis group closed after the shapes whose
\* string holds no "text" and before those whose string holds it.
EmittedInTwoRuns(s) ==
    /\ UnitOpens(s)
    /\ \E n \in 0..Len(s) : \E m \in 0..Len(s) :
          /\ \A i \in 6..(5 + n) : IsShape(s[i]) /\ ~HoldsText(s[i])
          /\ s[6 + n].elem = "/g"
          /\ \A i \in (7 + n)..(6 + n + m) : IsShape(s[i]) /\ HoldsText(s[i])
          /\ UnitCloses(s, 7 + n + m, 2)
          /\ CloseOf(s, 5) = 6 + n
    /\ GroupsNest(s)

\* The units have as many shapes as drawing commands and as many pin markers
\* as pins.
CountsMatch(s, unit) ==
    /\ Cardinality({i \in 1..Len(s) : IsShape(s[i])}) = Len(unit.draw_cmds)
    /\ Cardinality({i \in 1..Len(s) : s[i].elem = "pin"}) = Len(unit.pins)

\* C11 as stated: for every unit the elements are the outer named group
\* opened, the alias, the wrapper, orientation and mirror-axis groups opened,
\* all non-text shapes and then all text shapes, the inner groups closed, the
\* rectangle, one marker per pin and the outer group closed, with the groups
\* nested and balanced.
C11_ShapesInOneRunThenGroupsClosed ==
    Composed =>
        /\ Cardinality(UnitSeqsOf(ret.items)) <= Len(arg.part.units)
        /\ \A s \in UnitSeqsOf(ret.items) : EmittedAsOneRun(s)

\* C11, amended: for every unit the elements are the outer named group opened,
\* the alias, the wrapper, orientation and mirror-axis groups opened, the
\* shapes whose string holds no "text", the mirror-axis group closed, the
\* shapes whose string holds "text", the orientation and wrapper groups
\* closed, the rectangle, one marker per pin and the outer group closed; closed
\* groups never exceed opened ones, every shape lies inside the orientation
\* group, every marker outside it and inside the outer group, and at the end
\* every group is closed.
C11_TextShapesAfterMirrorGroupClosed ==
    Composed =>
        /\ ret.items # <<>> => IsNamedGroup(ret.items[1])
        /\ \A s \in UnitSeqsOf(ret.items) :
              /\ EmittedInTwoRuns(s)
              /\ \E u \in 1..Len(arg.part.units) : CountsMatch(s, arg.part.units[u])

\* A unit with a shape inside the mirror-axis group, a text shape after it
\* and a pin marker has been composed.
C11_Witness ==
    /\ Composed
    /\ \E s \in UnitSeqsOf(ret.items) :
          /\ \E i \in 1..Len(s) : IsShape(s[i]) /\ ~HoldsText(s[i])
          /\ \E i \in 1..Len(s) : IsShape(s[i]) /\ IsTextShape(s[i])
          /\ \E i \in 1..Len(s) : s[i].elem = "pin"

=============================================================================
